---- MODULE Spec2Model ----
(***************************************************************************)
(* Model of lib/prometheus-parser/src/line.rs: the parser of one line of   *)
(* the Prometheus text exposition format.                                  *)
(*                                                                         *)
(* A &str is a sequence of characters; a character is a one-character      *)
(* string, except the three non-ASCII scalars, which are written by their  *)
(* code point ("U+00E9").  A parser result is a record: Ok(rest, val) or   *)
(* Err(e), e being a ParserError with the remaining input it carries.      *)
(* Every error of line.rs is nom::Err::Error (recoverable).                *)
(***************************************************************************)
EXTENDS Integers, Sequences, FiniteSets, TLC

VARIABLES input, pieces, pc, result

vars == <<input, pieces, pc, result>>

(***************************************************************************)
(* Bounds of the model: the number of pieces an input is built from (pieces *)
(* counts them).                                                           *)
(***************************************************************************)
MaxNameLen == 4
MaxStrLen == 6
MaxLabelPieces == 4
MaxHeaderPieces == 3
MaxLinePieces == 4

(***************************************************************************)
(* Characters                                                              *)
(***************************************************************************)
AsciiLetter ==
    {"a","b","c","d","e","f","g","h","i","j","k","l","m",
     "n","o","p","q","r","s","t","u","v","w","x","y","z",
     "A","B","C","D","E","F","G","H","I","J","K","L","M",
     "N","O","P","Q","R","S","T","U","V","W","X","Y","Z"}

AsciiDigit == {"0","1","2","3","4","5","6","7","8","9"}

\* U+00E9 (e with acute) is alphabetic, U+0663 (Arabic-Indic digit three) is
\* numeric, U+1F602 (an emoji) is neither.
is_alphabetic(c) == c \in AsciiLetter \cup {"U+00E9"}

is_numeric(c) == c \in AsciiDigit \cup {"U+0663"}

is_alphanumeric(c) == is_alphabetic(c) \/ is_numeric(c)

is_space(c) == c \in {" ", "\t"}

is_whitespace(c) == c \in {" ", "\t", "\n", "\r"}

(***************************************************************************)
(* Slices                                                                  *)
(***************************************************************************)
Take(s, n) == SubSeq(s, 1, n)

Drop(s, n) == SubSeq(s, n + 1, Len(s))

StartsWith(s, t) == Len(s) >= Len(t) /\ Take(s, Len(t)) = t

\* The number of leading characters of s for which keep[c] holds; keep is a
\* function over the characters of s.
LeadingRun(s, keep) ==
    IF \A i \in 1..Len(s) : keep[s[i]]
    THEN Len(s)
    ELSE (CHOOSE i \in 1..Len(s) :
              ~keep[s[i]] /\ \A j \in 1..(i - 1) : keep[s[j]]) - 1

CharsOf(s) == {s[i] : i \in 1..Len(s)}

(***************************************************************************)
(* Results and errors                                                      *)
(***************************************************************************)
Ok(rest, val) == [ok |-> TRUE, rest |-> rest, val |-> val]

Err(e) == [ok |-> FALSE, err |-> e]

\* let x = v; F(x): v is evaluated once and F reads its value.
Bind(v, F(_)) == CHOOSE out \in {F(x) : x \in {v}} : TRUE

InvalidMetricKind(i) == [kind |-> "InvalidMetricKind", what |-> "", input |-> i]

ExpectedToken(expected, i) == [kind |-> "ExpectedToken", what |-> expected, input |-> i]

ParseNameError(i) == [kind |-> "ParseNameError", what |-> "", input |-> i]

ParseFloatError(i) == [kind |-> "ParseFloatError", what |-> "", input |-> i]

\* ParseError::from_error_kind: the error a bare nom combinator reports.
from_error_kind(i, k) == [kind |-> "Nom", what |-> k, input |-> i]

\* ParseError::or, nom's default: the later alternative's error is kept.
ParserError_or(self, other) == other

\* ParseError::append, as alt calls it once every alternative has failed.
ParserError_append(i, k, other) == other

(***************************************************************************)
(* Primitive lexers                                                        *)
(***************************************************************************)
trim_space(i) ==
    Drop(i, LeadingRun(i, [c \in CharsOf(i) |-> is_space(c)]))

\* str::trim: whitespace is removed at both ends.
RECURSIVE trim_end(_)
trim_end(i) ==
    IF i # <<>> /\ is_whitespace(i[Len(i)]) THEN trim_end(Take(i, Len(i) - 1)) ELSE i

trim(i) ==
    trim_end(Drop(i, LeadingRun(i, [c \in CharsOf(i) |-> is_whitespace(c)])))

sp(i) == Ok(trim_space(i), Take(i, Len(i) - Len(trim_space(i))))

char(ch, i) ==
    IF i # <<>> /\ i[1] = ch THEN Ok(Tail(i), ch) ELSE Err(from_error_kind(i, "Char"))

tag(t, i) ==
    IF StartsWith(i, t) THEN Ok(Drop(i, Len(t)), t) ELSE Err(from_error_kind(i, "Tag"))

NameStart(c) == is_alphabetic(c) \/ c = "_"

NameCont(c) == is_alphanumeric(c) \/ c = "_"

parse_name(i0) ==
    LET i == trim_space(i0)
        na == LeadingRun(i, [c \in CharsOf(i) |-> NameStart(c)])
        r == Drop(i, na)
        nb == LeadingRun(r, [c \in CharsOf(r) |-> NameCont(c)])
    IN IF na = 0
       THEN Err(ParseNameError(i))
       ELSE Ok(Drop(r, nb), Take(i, na) \o Take(r, nb))

(***************************************************************************)
(* Specification of the name lexer: an input is built character by         *)
(* character, then parse_name is applied to it.                            *)
(***************************************************************************)
NameChars == {" ", "\t", "a", "Z", "_", "9", "-", "U+00E9", "U+0663"}

NoResult == [ok |-> FALSE, err |-> [kind |-> "none", what |-> "", input |-> <<>>]]

Init ==
    /\ input = <<>>
    /\ pc = "build"
    /\ result = NoResult
    /\ pieces = 0

AddNameChar ==
    /\ pc = "build"
    /\ pieces < MaxNameLen
    /\ \E c \in NameChars : input' = Append(input, c)
    /\ pieces' = pieces + 1
    /\ UNCHANGED <<pc, result>>

CallParseName ==
    /\ pc = "build"
    /\ result' = parse_name(input)
    /\ pc' = "parse_name"
    /\ UNCHANGED <<input, pieces>>

NextName == AddNameChar \/ CallParseName

SpecName == Init /\ [][NextName]_vars

(***************************************************************************)
(* The identifier grammar [A-Za-z_][A-Za-z0-9_]*, stated on its own.       *)
(***************************************************************************)
RECURSIVE SkipBlanks(_)
SkipBlanks(s) ==
    IF s # <<>> /\ s[1] \in {" ", "\t"} THEN SkipBlanks(Tail(s)) ELSE s

RECURSIVE AsciiRun(_)
AsciiRun(s) ==
    IF s # <<>> /\ s[1] \in AsciiLetter \cup AsciiDigit \cup {"_"}
    THEN 1 + AsciiRun(Tail(s))
    ELSE 0

\* The length of the longest identifier s starts with, 0 when there is none.
IdentLen(s) ==
    IF s # <<>> /\ s[1] \in AsciiLetter \cup {"_"} THEN AsciiRun(s) ELSE 0

\* C2: parse_name returns the longest prefix (after leading spaces and tabs)
\* that matches [A-Za-z_][A-Za-z0-9_]*, and fails with the malformed-identifier
\* error when the first non-blank character starts no such identifier.
C2_NameIsAsciiIdentifier ==
    pc = "parse_name" =>
        LET t == SkipBlanks(input)
            n == IdentLen(t)
        IN IF n > 0
           THEN result.ok /\ result.val = Take(t, n) /\ result.rest = Drop(t, n)
           ELSE ~result.ok /\ result.err = ParseNameError(t)

(***************************************************************************)
(* Escaped-string lexer                                                    *)
(***************************************************************************)
\* The escape \n decoded to the letter n: the backslash is dropped and the
\* character after it is kept as it is.
escaped_char_verbatim(i) ==
    IF i # <<>> /\ i[1] \in {"n", "\"", "\\"}
    THEN Ok(Tail(i), i[1])
    ELSE Err(from_error_kind(i, "Char"))

\* alt((value('\n', char('n')), value('"', char('"')), value('\\', char('\\'))))
escaped_char(i) ==
    LET a == char("n", i)
        b == char("\"", i)
        c == char("\\", i)
    IN IF a.ok THEN Ok(a.rest, "\n")
       ELSE IF b.ok THEN Ok(b.rest, "\"")
       ELSE IF c.ok THEN Ok(c.rest, "\\")
       ELSE Err(ParserError_append(i, "Alt",
                    ParserError_or(ParserError_or(a.err, b.err), c.err)))

\* is_not("\"\\"): a non-empty run free of '"' and '\'.
is_not_quote_backslash(i) ==
    LET n == LeadingRun(i, [c \in CharsOf(i) |-> c \notin {"\"", "\\"}])
    IN IF n = 0 THEN Err(from_error_kind(i, "IsNot")) ELSE Ok(Drop(i, n), Take(i, n))

\* One fragment: a literal run, or an escape. val is the decoded text.
parse_string_fragment(i) ==
    LET lit == is_not_quote_backslash(i)
        bs == char("\\", i)
        esc == IF bs.ok THEN escaped_char(bs.rest) ELSE bs
    IN IF lit.ok THEN lit
       ELSE IF esc.ok THEN Ok(esc.rest, <<esc.val>>)
       ELSE Err(ParserError_append(i, "Alt", ParserError_or(lit.err, esc.err)))

\* fold_many0(parse_string_fragment, String::new(), push)
RECURSIVE build_string(_, _)
build_string(i, acc) ==
    Bind(parse_string_fragment(i), LAMBDA f :
        IF ~f.ok THEN Ok(i, acc)
        ELSE IF f.rest = i THEN Err(from_error_kind(i, "Many0"))
        ELSE build_string(f.rest, acc \o f.val))

match_quote(i) ==
    LET q == char("\"", i)
    IN IF q.ok THEN q ELSE Err(ExpectedToken("\"", i))

\* delimited(match_quote, build_string, match_quote)
parse_escaped_string(i0) ==
    Bind(match_quote(trim_space(i0)), LAMBDA open :
        IF ~open.ok THEN open
        ELSE Bind(build_string(open.rest, <<>>), LAMBDA body :
            IF ~body.ok THEN body
            ELSE Bind(match_quote(body.rest), LAMBDA close :
                IF ~close.ok THEN close
                ELSE Ok(close.rest, body.val))))

(***************************************************************************)
(* Specification of the escaped-string lexer.                              *)
(***************************************************************************)
StrChars == {" ", "\"", "\\", "n", "a", "U+1F602"}

AddStrChar ==
    /\ pc = "build"
    /\ pieces < MaxStrLen
    /\ \E c \in StrChars : input' = Append(input, c)
    /\ pieces' = pieces + 1
    /\ UNCHANGED <<pc, result>>

CallParseEscapedString ==
    /\ pc = "build"
    /\ result' = parse_escaped_string(input)
    /\ pc' = "parse_escaped_string"
    /\ UNCHANGED <<input, pieces>>

NextString == AddStrChar \/ CallParseEscapedString

SpecString == Init /\ [][NextString]_vars

(***************************************************************************)
(* The quoted-string grammar, read one character at a time from the        *)
(* character after the opening quote.                                      *)
(***************************************************************************)
Unescape(c) == IF c = "n" THEN "\n" ELSE c

RECURSIVE QuotedBody(_, _)
QuotedBody(s, acc) ==
    IF s = <<>> THEN [closed |-> FALSE, val |-> acc, rest |-> s]
    ELSE IF s[1] = "\"" THEN [closed |-> TRUE, val |-> acc, rest |-> Tail(s)]
    ELSE IF s[1] # "\\" THEN QuotedBody(Tail(s), Append(acc, s[1]))
    ELSE IF Len(s) >= 2 /\ s[2] \in {"\\", "\"", "n"}
         THEN QuotedBody(Drop(s, 2), Append(acc, Unescape(s[2])))
         ELSE [closed |-> FALSE, val |-> acc, rest |-> s]

\* C9: on a well-formed quoted string followed by any text, the result is the
\* literal runs and the decoded escapes in order, and the remainder is the text
\* after the closing quote; a backslash before any other character, or input
\* that ends before the closing quote, fails with ExpectedToken("\"").
C9_EscapedStringDecoded ==
    pc = "parse_escaped_string" =>
        LET t == SkipBlanks(input)
        IN (t # <<>> /\ t[1] = "\"") =>
              LET b == QuotedBody(Tail(t), <<>>)
              IN IF b.closed
                 THEN result = Ok(b.rest, b.val)
                 ELSE /\ ~result.ok
                      /\ result.err.kind = "ExpectedToken"
                      /\ result.err.what = "\""

C9_Witness ==
    /\ pc = "parse_escaped_string"
    /\ result.ok
    /\ "\n" \in CharsOf(result.val)
    /\ "a" \in CharsOf(result.val)
    /\ result.rest # <<>>

(***************************************************************************)
(* Label-set parser                                                        *)
(***************************************************************************)
\* preceded(sp, char('='))
equals(i) == char("=", sp(i).rest)

\* tuple((parse_name, preceded(sp, char('=')), parse_escaped_string))
parse_name_value(i) ==
    Bind(parse_name(i), LAMBDA name :
        IF ~name.ok THEN name
        ELSE Bind(equals(name.rest), LAMBDA eq :
            IF ~eq.ok THEN eq
            ELSE Bind(parse_escaped_string(eq.rest), LAMBDA value :
                IF ~value.ok THEN value
                ELSE Ok(value.rest, [name |-> name.val, value |-> value.val]))))

\* preceded(sp, char(','))
comma(i) == char(",", sp(i).rest)

\* The same, with the error of an element that follows a separator returned to
\* the caller, not swallowed.
RECURSIVE separated_list_strict(_, _)
separated_list_strict(i, res) ==
    Bind(comma(i), LAMBDA s :
        IF ~s.ok THEN Ok(i, res)
        ELSE Bind(parse_name_value(s.rest), LAMBDA f :
            IF ~f.ok THEN f
            ELSE separated_list_strict(f.rest, Append(res, f.val))))

\* nom 5 separated_list, after its first element: an error of the separator
\* or of an element ends the list before the separator.
RECURSIVE separated_list_more(_, _)
separated_list_more(i, res) ==
    Bind(comma(i), LAMBDA s :
        IF ~s.ok THEN Ok(i, res)
        ELSE IF s.rest = i THEN Err(from_error_kind(i, "SeparatedList"))
        ELSE Bind(parse_name_value(s.rest), LAMBDA f :
            IF ~f.ok THEN Ok(i, res)
            ELSE IF f.rest = i THEN Err(from_error_kind(i, "SeparatedList"))
            ELSE separated_list_more(f.rest, Append(res, f.val))))

separated_list(i) ==
    Bind(parse_name_value(i), LAMBDA f :
        IF ~f.ok THEN Ok(i, <<>>)
        ELSE IF f.rest = i THEN Err(from_error_kind(i, "SeparatedList"))
        ELSE separated_list_more(f.rest, <<f.val>>))

EmptyMap == [k \in {} |-> <<>>]

\* An insert that keeps the value a key already has.
insert_if_absent(m, k, v) ==
    [x \in DOMAIN m \cup {k} |-> IF x \in DOMAIN m THEN m[x] ELSE v]

\* BTreeMap::insert: the value a key already has is replaced.
insert(m, k, v) == [x \in DOMAIN m \cup {k} |-> IF x = k THEN v ELSE m[x]]

\* list.into_iter().collect(): the pairs are inserted in order.
RECURSIVE collect(_, _)
collect(l, m) ==
    IF l = <<>> THEN m
    ELSE collect(Tail(l), insert(m, Head(l).name, Head(l).value))

\* opt(preceded(sp, char(','))): the input after the comma, if there is one.
opt_comma(i) == Bind(comma(i), LAMBDA c : IF c.ok THEN c.rest ELSE i)

parse_labels_inner(i) ==
    Bind(separated_list(i), LAMBDA l :
        IF ~l.ok THEN l
        ELSE Ok(opt_comma(l.rest), collect(l.val, EmptyMap)))

\* The closing brace with nom's own error left as it is.
close_brace_unmapped(i) == char("}", sp(i).rest)

\* preceded(sp, char('}')) with its error mapped to ExpectedToken.
close_brace(i) ==
    Bind(char("}", sp(i).rest), LAMBDA c :
        IF c.ok THEN c ELSE Err(ExpectedToken("}", i)))

parse_labels(i0) ==
    Bind(char("{", trim_space(i0)), LAMBDA open :
        IF ~open.ok THEN Ok(trim_space(i0), EmptyMap)
        ELSE Bind(parse_labels_inner(open.rest), LAMBDA inner :
            IF ~inner.ok THEN inner
            ELSE Bind(close_brace(inner.rest), LAMBDA close :
                IF ~close.ok THEN close
                ELSE Ok(close.rest, inner.val))))

(***************************************************************************)
(* Specification of the label-set parser: an input is an optional blank,   *)
(* an optional '{' and up to MaxLabelPieces pieces.                        *)
(***************************************************************************)
LabelPieces ==
    { <<"}">>, <<",">>, <<" ">>,
      <<"a", "=", "\"", "1", "\"">>,          \* a="1"
      <<"b", "=", "\"", "}", "\"">>,          \* b="}"
      <<"a", "=", "\"", "\\", "\"", "\"">>,   \* a="\""
      <<"a", "=", "\"", "1">>,                \* a="1   (the quote is left open)
      <<"9", "=", "\"", "1", "\"">>,          \* 9="1"  (no label name)
      <<"a", "\"", "1", "\"">> }              \* a"1"   (no '=')

OpenBrace ==
    /\ pc = "build"
    /\ input \in {<<>>, <<" ">>}
    /\ input' = Append(input, "{")
    /\ pieces' = 0
    /\ UNCHANGED <<pc, result>>

AddLabelPiece ==
    /\ pc = "build"
    /\ pieces < MaxLabelPieces
    /\ \E p \in LabelPieces : input' = input \o p
    /\ pieces' = pieces + 1
    /\ UNCHANGED <<pc, result>>

CallParseLabels ==
    /\ pc = "build"
    /\ result' = parse_labels(input)
    /\ pc' = "parse_labels"
    /\ UNCHANGED <<input, pieces>>

NextLabels == OpenBrace \/ AddLabelPiece \/ CallParseLabels

SpecLabels == Init /\ [][NextLabels]_vars

(***************************************************************************)
(* Value lexer.  An f64 is modelled by its class and, when finite, by the  *)
(* decimal number the literal denotes: <<m, e>> stands for m * 10^e, with  *)
(* m not a multiple of 10 (<<0, 0>> for zero).                             *)
(***************************************************************************)
Digits == <<"0", "1", "2", "3", "4", "5", "6", "7", "8", "9">>

DigitVal(c) == (CHOOSE k \in 1..10 : Digits[k] = c) - 1

RECURSIVE Decimal(_, _)
Decimal(ds, acc) ==
    IF ds = <<>> THEN acc ELSE Decimal(Tail(ds), 10 * acc + DigitVal(Head(ds)))

RECURSIVE Normal(_, _)
Normal(m, e) ==
    IF m = 0 THEN <<0, 0>>
    ELSE IF m % 10 = 0 THEN Normal(m \div 10, e + 1)
    ELSE <<m, e>>

Finite(neg, ds, e) ==
    LET v == Normal(Decimal(ds, 0), e)
    IN [class |-> "finite", num |-> <<IF neg THEN 0 - v[1] ELSE v[1], v[2]>>]

Infinity == [class |-> "+inf", num |-> <<0, 0>>]

NegInfinity == [class |-> "-inf", num |-> <<0, 0>>]

NaN == [class |-> "nan", num |-> <<0, 0>>]

digit0(i) == LeadingRun(i, [c \in CharsOf(i) |-> c \in AsciiDigit])

HasSign(i) == i # <<>> /\ i[1] \in {"+", "-"}

\* nom::number::complete::double: [+-]? (digit+ ('.' digit*)? | '.' digit+)
\* ([eE] [+-]? digit+)?, an exponent mark with no digit after it being an error.
double(i) ==
    LET neg == i # <<>> /\ i[1] = "-"
        a == IF HasSign(i) THEN Tail(i) ELSE i
        ni == digit0(a)
        b == Drop(a, ni)
        dot == b # <<>> /\ b[1] = "."
        nf == IF dot THEN digit0(Tail(b)) ELSE 0
        c == IF dot /\ (ni > 0 \/ nf > 0) THEN Drop(b, 1 + nf) ELSE b
        frac == IF dot THEN Take(Tail(b), nf) ELSE <<>>
        hasExp == c # <<>> /\ c[1] \in {"e", "E"}
        d == IF HasSign(Tail(c)) THEN Drop(c, 2) ELSE Tail(c)
        negExp == Len(c) >= 2 /\ c[2] = "-"
        ne == digit0(d)
        ex == Decimal(Take(d, ne), 0)
    IN IF ni = 0 /\ nf = 0 THEN Err(from_error_kind(i, "Float"))
       ELSE IF ~hasExp THEN Ok(c, Finite(neg, Take(a, ni) \o frac, 0 - Len(frac)))
       ELSE IF ne = 0 THEN Err(from_error_kind(d, "Digit"))
       ELSE Ok(Drop(d, ne),
               Finite(neg, Take(a, ni) \o frac,
                      (IF negExp THEN 0 - ex ELSE ex) - Len(frac)))

parse_value(i0) ==
    LET i == trim_space(i0)
    IN IF tag(<<"+", "I", "n", "f">>, i).ok THEN Ok(Drop(i, 4), Infinity)
       ELSE IF tag(<<"-", "I", "n", "f">>, i).ok THEN Ok(Drop(i, 4), NegInfinity)
       ELSE IF tag(<<"N", "a", "n">>, i).ok THEN Ok(Drop(i, 3), NaN)
       ELSE Bind(double(i), LAMBDA d :
                IF d.ok THEN d ELSE Err(ParseFloatError(i)))

(***************************************************************************)
(* Metric parser                                                           *)
(***************************************************************************)
Metric(name, labels, value) ==
    [tag |-> "Metric", name |-> name, labels |-> labels, value |-> value]

\* A metric parser that reports text left after the value as an error.
Metric_parse_to_end(i0) ==
    Bind(parse_name(trim_space(i0)), LAMBDA name :
        IF ~name.ok THEN name
        ELSE Bind(parse_labels(name.rest), LAMBDA labels :
            IF ~labels.ok THEN labels
            ELSE Bind(parse_value(labels.rest), LAMBDA value :
                IF ~value.ok THEN value
                ELSE IF value.rest # <<>> THEN Err(from_error_kind(value.rest, "Eof"))
                ELSE Ok(value.rest, Metric(name.val, labels.val, value.val)))))

Metric_parse(i0) ==
    Bind(parse_name(trim_space(i0)), LAMBDA name :
        IF ~name.ok THEN name
        ELSE Bind(parse_labels(name.rest), LAMBDA labels :
            IF ~labels.ok THEN labels
            ELSE Bind(parse_value(labels.rest), LAMBDA value :
                IF ~value.ok THEN value
                ELSE Ok(value.rest, Metric(name.val, labels.val, value.val)))))

(***************************************************************************)
(* Header parser                                                           *)
(***************************************************************************)
Header(metric_name, kind) ==
    [tag |-> "Header", metric_name |-> metric_name, kind |-> kind]

KwCounter == <<"c", "o", "u", "n", "t", "e", "r">>

KwGauge == <<"g", "a", "u", "g", "e">>

KwSummary == <<"s", "u", "m", "m", "a", "r", "y">>

KwHistogram == <<"h", "i", "s", "t", "o", "g", "r", "a", "m">>

KwUntyped == <<"u", "n", "t", "y", "p", "e", "d">>

\* alt of the five value(MetricKind, tag(keyword)), its error mapped.
metric_kind(i) ==
    IF tag(KwCounter, i).ok THEN Ok(Drop(i, Len(KwCounter)), "Counter")
    ELSE IF tag(KwGauge, i).ok THEN Ok(Drop(i, Len(KwGauge)), "Gauge")
    ELSE IF tag(KwSummary, i).ok THEN Ok(Drop(i, Len(KwSummary)), "Summary")
    ELSE IF tag(KwHistogram, i).ok THEN Ok(Drop(i, Len(KwHistogram)), "Histogram")
    ELSE IF tag(KwUntyped, i).ok THEN Ok(Drop(i, Len(KwUntyped)), "Untyped")
    ELSE Err(InvalidMetricKind(i))

Header_parse(i0) ==
    LET i == trim_space(i0)
        hash == tag(<<"#">>, i)
        j == trim_space(hash.rest)
        type == tag(<<"T", "Y", "P", "E">>, j)
    IN IF ~hash.ok THEN Err(ExpectedToken("#", i))
       ELSE IF ~type.ok THEN Err(ExpectedToken("TYPE", j))
       ELSE Bind(parse_name(type.rest), LAMBDA name :
                IF ~name.ok THEN name
                ELSE Bind(metric_kind(trim_space(name.rest)), LAMBDA kind :
                    IF ~kind.ok THEN kind
                    ELSE Ok(kind.rest, Header(name.val, kind.val))))

(***************************************************************************)
(* Line classifier                                                         *)
(***************************************************************************)
None == [tag |-> "None"]

\* The classifier without its last alternative, value(None, char('#')).
Line_parse_inner_no_comment(i0) ==
    LET i == trim(i0)
    IN IF i = <<>> THEN Ok(i, None)
       ELSE Bind(Metric_parse(i), LAMBDA m :
            IF m.ok THEN m
            ELSE Bind(Header_parse(i), LAMBDA h :
                IF h.ok THEN h
                ELSE Err(ParserError_append(i, "Alt", ParserError_or(m.err, h.err)))))

\* alt((Metric::parse, Header::parse, value(None, char('#')))) on the trimmed
\* line: the first alternative that succeeds; when none does, the errors are
\* combined with ParseError::or and the result passed to ParseError::append.
Line_parse_inner(i0) ==
    LET i == trim(i0)
    IN IF i = <<>> THEN Ok(i, None)
       ELSE Bind(Metric_parse(i), LAMBDA m :
            IF m.ok THEN m
            ELSE Bind(Header_parse(i), LAMBDA h :
                IF h.ok THEN h
                ELSE Bind(char("#", i), LAMBDA c :
                    IF c.ok THEN Ok(c.rest, None)
                    ELSE Err(ParserError_append(i, "Alt",
                             ParserError_or(ParserError_or(m.err, h.err), c.err))))))

\* The remaining input is dropped: Ok(line) or Err(error).
Line_parse(i0) ==
    Bind(Line_parse_inner(i0), LAMBDA r :
        IF r.ok THEN [ok |-> TRUE, val |-> r.val] ELSE r)

(***************************************************************************)
(* Specification of the header parser.                                     *)
(***************************************************************************)
HeaderPieces ==
    { <<"#", " ", "T", "Y", "P", "E", " ", "m", " ">>,     \* "# TYPE m "
      <<"#">>, <<"T", "Y", "P", "E">>, <<" ">>, <<"m">>,
      KwCounter, KwGauge, KwSummary, KwHistogram, KwUntyped,
      <<"s">>, <<"G", "a", "u", "g", "e">> }

AddHeaderPiece ==
    /\ pc = "build"
    /\ pieces < MaxHeaderPieces
    /\ \E p \in HeaderPieces : input' = input \o p
    /\ pieces' = pieces + 1
    /\ UNCHANGED <<pc, result>>

CallHeaderParse ==
    /\ pc = "build"
    /\ result' = Header_parse(input)
    /\ pc' = "Header::parse"
    /\ UNCHANGED <<input, pieces>>

NextHeader == AddHeaderPiece \/ CallHeaderParse

SpecHeader == Init /\ [][NextHeader]_vars

(***************************************************************************)
(* Specification of the line classifier.                                   *)
(***************************************************************************)
LinePieces ==
    { <<"#">>, <<" ">>, <<"\n">>, <<"m">>,
      <<"T", "Y", "P", "E", " ">>,                 \* "TYPE "
      <<" ", "c", "o", "u", "n", "t", "e", "r">>,  \* " counter"
      <<"{", "a", "=", "\"", "1", "\"", "}">>,     \* {a="1"}
      <<"{", "a", "=", "\"", "1", "\"">>,          \* {a="1"
      <<" ", "1">>,                                \* " 1"
      <<" ", "+", "I", "n", "f">> }                \* " +Inf"

AddLinePiece ==
    /\ pc = "build"
    /\ pieces < MaxLinePieces
    /\ \E p \in LinePieces : input' = input \o p
    /\ pieces' = pieces + 1
    /\ UNCHANGED <<pc, result>>

CallLineParse ==
    /\ pc = "build"
    /\ result' = Line_parse(input)
    /\ pc' = "Line::parse"
    /\ UNCHANGED <<input, pieces>>

NextLine == AddLinePiece \/ CallLineParse

SpecLine == Init /\ [][NextLine]_vars

(***************************************************************************)
(* The labels production of the grammar, read from the text:               *)
(*   labels := "{" ws (pair (ws "," ws pair)* (ws ",")?)? ws "}"           *)
(*   pair   := name ws "=" ws qstring                                      *)
(***************************************************************************)
Opens(t) == t # <<>> /\ t[1] = "{"

\* Whether a '}' stands in s outside every quoted string.
RECURSIVE HasCloseBrace(_)
HasCloseBrace(s) ==
    IF s = <<>> THEN FALSE
    ELSE IF s[1] = "}" THEN TRUE
    ELSE IF s[1] = "\""
         THEN LET b == QuotedBody(Tail(s), <<>>)
              IN b.closed /\ HasCloseBrace(b.rest)
         ELSE HasCloseBrace(Tail(s))

\* One pair at the start of s.
Pair(s) ==
    LET k == IdentLen(s)
        a == SkipBlanks(Drop(s, k))
        b == SkipBlanks(Tail(a))
        q == QuotedBody(Tail(b), <<>>)
    IN IF k > 0 /\ a # <<>> /\ a[1] = "=" /\ b # <<>> /\ b[1] = "\"" /\ q.closed
       THEN [ok |-> TRUE, rest |-> q.rest, name |-> Take(s, k), value |-> q.val]
       ELSE [ok |-> FALSE, rest |-> s, name |-> <<>>, value |-> <<>>]

\* What may follow a pair: '}', or ',' '}', or ',' and one more pair.
RECURSIVE AfterPair(_)
AfterPair(s0) ==
    LET s == SkipBlanks(s0)
        u == SkipBlanks(Tail(s))
        p == Pair(u)
    IN IF s = <<>> THEN FALSE
       ELSE IF s[1] = "}" THEN TRUE
       ELSE IF s[1] # "," THEN FALSE
       ELSE IF u # <<>> /\ u[1] = "}" THEN TRUE
       ELSE p.ok /\ AfterPair(p.rest)

InLabelsGrammar(t) ==
    LET s == SkipBlanks(Tail(t))
        p == Pair(s)
    IN /\ Opens(t)
       /\ \/ s # <<>> /\ s[1] = "}"
          \/ p.ok /\ AfterPair(p.rest)

\* The pairs that occur in the text after the '{', in order, up to the '}'.
RECURSIVE TextPairs(_)
TextPairs(s0) ==
    LET s == SkipBlanks(s0)
        p == Pair(s)
    IN IF s = <<>> \/ s[1] = "}" THEN <<>>
       ELSE IF s[1] = "," THEN TextPairs(Tail(s))
       ELSE IF p.ok THEN <<[name |-> p.name, value |-> p.value]>> \o TextPairs(p.rest)
       ELSE <<>>

IsSuffix(s, t) == Len(s) <= Len(t) /\ Drop(t, Len(t) - Len(s)) = s

LabelsCalled == pc = "parse_labels" /\ Opens(SkipBlanks(input))

LabelsBody == Tail(SkipBlanks(input))

\* C3: a label set that is opened and has no closing '}' (the text ends after
\* the '{', after a pair, after a trailing comma or inside a quoted value that
\* is never closed) fails with ExpectedToken("}"), never a generic nom error.
C3_MissingBraceIsExpectedToken ==
    (LabelsCalled /\ ~HasCloseBrace(LabelsBody)) =>
        /\ ~result.ok
        /\ result.err.kind = "ExpectedToken"
        /\ result.err.what = "}"

\* {a="1}  : the '}' is inside the quoted value, which is never closed.
C3_Witness ==
    /\ pc = "parse_labels"
    /\ input = <<"{", "a", "=", "\"", "1", "}">>
    /\ ~result.ok

\* C4: parse_labels on an input that opens with '{' succeeds if and only if
\* the text is in the labels production of the grammar.
C4_AcceptsExactlyTheGrammar ==
    LabelsCalled => (result.ok <=> InLabelsGrammar(SkipBlanks(input)))

\* C7: the mapping of an accepted label set has exactly the keys that occur
\* in the text, each mapped to the decoded value of its last occurrence; when
\* the keys are distinct each key maps to the value of its only pair, whatever
\* the order of the pairs.
C7_LastWriteWins ==
    (LabelsCalled /\ result.ok) =>
        LET ps == TextPairs(LabelsBody)
            at(k) == {i \in 1..Len(ps) : ps[i].name = k}
            keys == {ps[i].name : i \in 1..Len(ps)}
        IN /\ DOMAIN result.val = keys
           /\ \A k \in keys :
                 \E i \in at(k) :
                    /\ \A j \in at(k) : j <= i
                    /\ result.val[k] = ps[i].value

\* {a="1",a="\""} : the key a occurs twice, with two values.
C7_Witness ==
    /\ LabelsCalled
    /\ result.ok
    /\ LET ps == TextPairs(LabelsBody)
       IN \E i, j \in 1..Len(ps) :
             i < j /\ ps[i].name = ps[j].name /\ ps[i].value # ps[j].value

Keywords == {KwCounter, KwGauge, KwSummary, KwHistogram, KwUntyped}

KindName(kw) ==
    CASE kw = KwCounter -> "Counter"
      [] kw = KwGauge -> "Gauge"
      [] kw = KwSummary -> "Summary"
      [] kw = KwHistogram -> "Histogram"
      [] kw = KwUntyped -> "Untyped"

AfterHash(t) == SkipBlanks(Tail(t))

AfterType(t) == SkipBlanks(Drop(AfterHash(t), 4))

\* "#", "TYPE" and a metric name are there.
HeaderPrefix(t) ==
    /\ t # <<>> /\ t[1] = "#"
    /\ StartsWith(AfterHash(t), <<"T", "Y", "P", "E">>)
    /\ IdentLen(AfterType(t)) > 0

HeaderName(t) == Take(AfterType(t), IdentLen(AfterType(t)))

\* The text where the kind is expected.
KindText(t) == SkipBlanks(Drop(AfterType(t), IdentLen(AfterType(t))))

RECURSIVE TokenLen(_)
TokenLen(s) ==
    IF s # <<>> /\ s[1] \notin {" ", "\t"} THEN 1 + TokenLen(Tail(s)) ELSE 0

\* The whole token that follows the metric name.
KindToken(t) == Take(KindText(t), TokenLen(KindText(t)))

HeaderCalled == pc = "Header::parse" /\ HeaderPrefix(SkipBlanks(input))

\* C5: Header::parse succeeds only when the whole token after the metric name
\* is one of the five keywords, with the kind of that keyword; any other token
\* (one that only begins with a keyword too) fails with InvalidMetricKind
\* carrying the remaining input.
C5_KindIsWholeToken ==
    HeaderCalled =>
        LET t == SkipBlanks(input)
        IN IF KindToken(t) \in Keywords
           THEN result.ok /\ result.val = Header(HeaderName(t), KindName(KindToken(t)))
           ELSE ~result.ok /\ result.err = InvalidMetricKind(KindText(t))

(***************************************************************************)
(* The line classifier's contract                                          *)
(***************************************************************************)
Whitespace == {" ", "\t", "\n", "\r"}

RECURSIVE StripLeft(_)
StripLeft(s) == IF s # <<>> /\ s[1] \in Whitespace THEN StripLeft(Tail(s)) ELSE s

RECURSIVE StripRight(_)
StripRight(s) ==
    IF s # <<>> /\ s[Len(s)] \in Whitespace
    THEN StripRight(SubSeq(s, 1, Len(s) - 1))
    ELSE s

Strip(s) == StripRight(StripLeft(s))

LineCalled == pc = "Line::parse"

MetricPrefix(p) ==
    LET r == Metric_parse(Strip(p)) IN r.ok /\ r.rest = <<>>

\* C10: a valid metric prefix followed by a space or tab and any text is the
\* Metric of the prefix alone: the trailing text changes nothing and is never
\* an error.
C10_TrailingTextIgnored ==
    LineCalled =>
        \A k \in 1..Len(input) :
            (is_space(input[k]) /\ MetricPrefix(Take(input, k - 1))) =>
                /\ result.ok
                /\ result.val = Metric_parse(Strip(Take(input, k - 1))).val

\* m{a="1"} 1 +Inf : labels, a value, and text after the value.
C10_Witness ==
    /\ LineCalled
    /\ result.ok
    /\ result.val.tag = "Metric"
    /\ result.val.labels # EmptyMap
    /\ \E k \in 1..Len(input) :
          /\ is_space(input[k])
          /\ MetricPrefix(Take(input, k - 1))
          /\ Strip(Drop(input, k)) # <<>>

====
